---- MODULE Spec2Model ----
(***************************************************************************)
(* Car Dodger (game.py, db.py, launcher.py): the run_game session loop --  *)
(* menu, play, pause overlay, game over, restart -- with the spawner, the  *)
(* obstacle update loop, lane interpolation, the tables of db.py and the   *)
(* launcher's account handling.                                            *)
(*                                                                         *)
(* Lengths are pixels.  pygame.Rect stores integers: a float assigned to   *)
(* rect.x / rect.y is truncated toward zero.  Speeds, the scroll term and  *)
(* the interpolation step are floats in the source; they are kept here in  *)
(* hundredths of a pixel (Scale) and truncated where the source stores     *)
(* them in a Rect.  Time is the pygame clock in milliseconds.              *)
(***************************************************************************)
EXTENDS Integers, Sequences, FiniteSets, TLC

(* ------------------------------ bounds -------------------------------- *)
\* frames of the gameplay loop simulated in one session
MaxTicks == 70
\* input events (keys, clicks, window close) handled in one run
MaxEvents == 3
\* idle frames spent in the main menu or in the pause overlay in one run
MaxIdle == 1
\* runs of one session (the first run plus restarts)
MaxRuns == 2
\* frames simulated in one session of the input-free (spawner) specification
MaxSpawnTicks == 70
\* milliseconds a help or leaderboard screen stays open
OverlayMs == 1500
\* gameplay input arrives on every InputPeriod-th frame
InputPeriod == 10
\* frames an idle stretch of the main menu or of the pause overlay lasts
IdleFrames == 40
\* frames simulated in one session of the wall specification
MaxWallTicks == 100
\* gameplay frames of the chase specification
MaxChaseTicks == 130
\* frames simulated in one session of the head-on specification
MaxHeadOnTicks == 280
\* rnd.uniform(spawn_min, spawn_max) is sampled at SpeedSteps + 1 even points
SpeedSteps == 4
\* rows of the users table in the database specification
MaxUsers == 2
\* rows of the scores table in the database specification
MaxRows == 3
\* greatest `limit` passed to top_scores
MaxLimit == 2

(* ------------------------- program constants -------------------------- *)
SCREEN_W == 480
SCREEN_H == 720
LANES == 3
PLAYER_W == 80
PLAYER_H == 140
ENEMY_W == 80
ENEMY_H == 140
CLOSE_THRESH == 80
\* hundredths of a pixel per pixel (fixed-point rendering of the floats)
Scale == 100

Modes == {"Casual", "Heroic", "Nightmare"}

\* DIFF: min / max speed in hundredths of a pixel per frame
DIFF(mode) ==
    CASE mode = "Heroic"    -> [min |-> 600, max |-> 800,  spawn_ms |-> 900,
                                scroll |-> 5, max_enemies |-> 7]
      [] mode = "Nightmare" -> [min |-> 800, max |-> 1200, spawn_ms |-> 550,
                                scroll |-> 8, max_enemies |-> 10]
      [] OTHER              -> [min |-> 400, max |-> 600,  spawn_ms |-> 1200,
                                scroll |-> 4, max_enemies |-> 5]

Max(a, b) == IF a >= b THEN a ELSE b
Min(a, b) == IF a <= b THEN a ELSE b
Abs(a) == IF a >= 0 THEN a ELSE -a

\* a float (in hundredths) stored into a pygame.Rect coordinate
Trunc(h) == IF h >= 0 THEN h \div Scale ELSE -((-h) \div Scale)

\* LANE_X[i]: left edge of lane i (road_w = SCREEN_W, road_left = 0)
LANE_X(i) == (((2 * i + 1) * SCREEN_W) \div (2 * LANES)) - PLAYER_W \div 2

\* player_rect.y, fixed for the whole run
PlayerY == SCREEN_H - PLAYER_H - 20

\* spawn(): the conflict window below the spawn line
MinGap == 140
\* an obstacle lower than SCREEN_H + DespawnMargin is removed
DespawnMargin == 200
\* spawn_ms = max(SpawnFloor, base + jitter)
SpawnFloor == 200
\* lane_change_speed
LaneChangeSpeed == 12

(* ------------------------------- state -------------------------------- *)
VARIABLES
    pc,          \* "Menu", "Playing", "Paused", "GameOver", "Returned", "Crashed"
    difficulty,  \* run_game argument
    user_id,     \* run_game argument; 0 stands for None (guest)
    player_mask, \* player_mask is not None
    enemy_mask,  \* enemy_mask is not None
    frame_ms,    \* what clock.tick(FPS) returns on this machine
    now,         \* pg.time.get_ticks()
    score,
    enemies,     \* list of [lane, y, speed, passed, uid]
    last_spawn,
    spawn_ms,
    cur_lane,
    target_x,
    player_x,    \* player_rect.x
    paused,
    running,
    collided,    \* the loop's local flag when the obstacle loop was left
    scores,      \* rows of the scores table: [user_id, score, difficulty, created_at]
    run,         \* number of the current run_game activation
    ticks,       \* gameplay frames simulated so far in the session
    evs,         \* input events handled so far in this run
    idle,        \* idle menu / overlay frames so far in this run
    next_uid,    \* obstacles created so far in this run
    last_lane,   \* lane of the latest obstacle created in this run, or -1
    spawn_res,   \* what the spawn timing block did in the latest frame
    spawned,     \* <<the obstacle spawn() appended in the latest frame>>
    popups,      \* the spawn_popup calls of the latest frame: [txt, x, lane]
    last_ev,     \* the event of the latest frame and cur_lane when it arrived
    pause_snap,  \* <<run state>> when the pause overlay was entered
    resume_snap, \* <<run state>> when the pause overlay was left
    fails,       \* save_score calls that raised, in this session
    over,        \* runs that reached the game over screen, in this session
    users,       \* rows of the users table: [id, username, password, selected_car]
    ret,         \* the latest db call: its name, arguments and return value
    app          \* the Launcher: user_id, username, selected_car and cfg

vars == <<pc, difficulty, user_id, player_mask, enemy_mask,
                   frame_ms, now, score, enemies,
          last_spawn, spawn_ms, cur_lane, target_x, player_x, paused, running,
          collided, scores, run, ticks, evs, idle, next_uid, last_lane,
          spawn_res, spawned, popups, last_ev, pause_snap, resume_snap, fails,
          over, users, ret, app>>

\* `player_mask is not None and enemy_mask is not None`
have_masks == player_mask /\ enemy_mask

\* the database as the game module leaves it: only save_score is called
dbvars == <<users, ret>>

(* ------------------------------ spawner ------------------------------- *)
\* the results rnd.shuffle(candidate_lanes) can give
LaneOrders ==
    {o \in [1..LANES -> 0..(LANES - 1)] : \A i, j \in 1..LANES : o[i] = o[j] => i = j}

\* seeded fault: the conflict window stops at the spawn line
ConflictNoGap(es, lane) ==
    \E i \in 1..Len(es) : es[i].lane = lane /\ es[i].y < 0

\* any(e['lane'] == lane and e['rect'].y < min_gap for e in enemies)
Conflict(es, lane) ==
    \E i \in 1..Len(es) : es[i].lane = lane /\ es[i].y < MinGap

\* the lanes of `order` the for loop of spawn() would accept, in order
FreeLanes(es, order) == SelectSeq(order, LAMBDA l : ~Conflict(es, l))

\* seeded fault: the speed is stored with the wrong sign
NewEnemyNegated(lane, off, speed, uid) ==
    [lane |-> lane, y |-> (-ENEMY_H) - off, speed |-> -speed, passed |-> FALSE,
     uid |-> uid]

\* enemies.append({'rect': ..., 'lane': lane, 'speed': speed, 'passed': False})
NewEnemy(lane, off, speed, uid) ==
    [lane |-> lane, y |-> (-ENEMY_H) - off, speed |-> speed, passed |-> FALSE,
     uid |-> uid]

\* seeded fault: the cap test is off by one (> for >=)
spawnOffByOne(es, mode, order, off, speed, uid) ==
    IF Len(es) > DIFF(mode).max_enemies
    THEN es
    ELSE LET free == FreeLanes(es, order)
         IN IF free = <<>> THEN es
            ELSE Append(es, NewEnemy(Head(free), off, speed, uid))

\* spawn(): the enemy list after the call
spawn(es, mode, order, off, speed, uid) ==
    IF Len(es) >= DIFF(mode).max_enemies
    THEN es
    ELSE LET free == FreeLanes(es, order)
         IN IF free = <<>> THEN es
            ELSE Append(es, NewEnemy(Head(free), off, speed, uid))

(* ------------------------ collision and scoring ----------------------- *)
\* pygame.Rect.colliderect: touching edges do not collide
RectsOverlap(ax, ay, aw, ah, bx, by, bw, bh) ==
    /\ ax < bx + bw /\ bx < ax + aw
    /\ ay < by + bh /\ by < ay + ah

\* seeded fault: 1.0 + SHRINK_FRACTION
ShrunkGrown(w) == Max(1, (w * 135) \div 100)

\* max(1, int(w * (1.0 - SHRINK_FRACTION))), SHRINK_FRACTION = 0.35
Shrunk(w) == Max(1, (w * 65) \div 100)

\* the fallback test: both rects shrunk about their centres
ShrunkCollide(px, ex, ey) ==
    LET pw == Shrunk(PLAYER_W)  ph == Shrunk(PLAYER_H)
        ew == Shrunk(ENEMY_W)   eh == Shrunk(ENEMY_H)
    IN RectsOverlap(px + PLAYER_W \div 2 - pw \div 2,
                    PlayerY + PLAYER_H \div 2 - ph \div 2, pw, ph,
                    ex + ENEMY_W \div 2 - ew \div 2,
                    ey + ENEMY_H \div 2 - eh \div 2, ew, eh)

\* player_mask.overlap(enemy_mask, off) for the opaque placeholder surfaces
\* load_image returns: every pixel of both rectangles is set
MaskCollide(px, ex, ey) ==
    RectsOverlap(px, PlayerY, PLAYER_W, PLAYER_H, ex, ey, ENEMY_W, ENEMY_H)

\* seeded fault: only an obstacle level with the player collides
CollidedLevel(masks, px, e) == LANE_X(e.lane) = px /\ e.y = PlayerY

\* seeded fault: one mask is enough to take the mask test (`or` for `and`)
CollidedEitherMask(masks, px, e) ==
    IF player_mask \/ enemy_mask THEN MaskCollide(px, LANE_X(e.lane), e.y)
    ELSE ShrunkCollide(px, LANE_X(e.lane), e.y)

\* the collision test of one obstacle against the player
Collided(masks, px, e) ==
    IF masks THEN MaskCollide(px, LANE_X(e.lane), e.y)
    ELSE ShrunkCollide(px, LANE_X(e.lane), e.y)

\* seeded fault: a far pass is charged instead of awarded (-= for +=)
BonusCharged(px, e) ==
    IF Abs((2 * LANE_X(e.lane) + ENEMY_W) - (2 * px + PLAYER_W)) <= 2 * CLOSE_THRESH
    THEN 250 ELSE -150

\* seeded fault: the distance is taken without abs()
BonusOneSided(px, e) ==
    IF (2 * LANE_X(e.lane) + ENEMY_W) - (2 * px + PLAYER_W) <= 2 * CLOSE_THRESH
    THEN 250 ELSE 150

\* the score delta of the pass event: abs(ec - pc) <= CLOSE_THRESH
Bonus(px, e) ==
    IF Abs((2 * LANE_X(e.lane) + ENEMY_W) - (2 * px + PLAYER_W)) <= 2 * CLOSE_THRESH
    THEN 250 ELSE 150

\* e['rect'].y += e['speed'] + (base_scroll * 0.15)
MoveY(e, mode) == Trunc(e.y * Scale + e.speed + DIFF(mode).scroll * 15)

\* seeded fault: the pass test forgets `not e['passed']`
PassesEveryFrame(e, y1) == y1 > PlayerY + PLAYER_H

\* e['passed'] after the pass test of one iteration
Passes(e, y1) == ~e.passed /\ y1 > PlayerY + PLAYER_H

\* seeded fault: an obstacle is removed as soon as it leaves the screen
DespawnsAtEdge(y1) == y1 > SCREEN_H

\* the obstacle is put on the removal list
Despawns(y1) == y1 > SCREEN_H + DespawnMargin

\* seeded fault: the obstacle loop without its `break`
RECURSIVE EnemyLoopNoBreak(_, _, _, _, _)
EnemyLoopNoBreak(st, i, px, mode, masks) ==
    IF i > Len(st.es) THEN st
    ELSE LET e == st.es[i]
             y1 == MoveY(e, mode)
             moved == [e EXCEPT !.y = y1]
             hit == Collided(masks, px, moved)
             pass == ~hit /\ Passes(e, y1)
             e2 == [moved EXCEPT !.passed = e.passed \/ pass]
         IN EnemyLoopNoBreak(
              [es |-> [st.es EXCEPT ![i] = e2],
               score |-> IF pass THEN st.score + Bonus(px, moved) ELSE st.score,
               rem |-> IF ~hit /\ Despawns(y1) THEN st.rem \cup {i} ELSE st.rem,
               collided |-> st.collided \/ hit],
              i + 1, px, mode, masks)

\* `for e in enemies` from index i on; st = [es, score, rem, collided]
RECURSIVE EnemyLoop(_, _, _, _, _)
EnemyLoop(st, i, px, mode, masks) ==
    IF i > Len(st.es) THEN st
    ELSE LET e == st.es[i]
             y1 == MoveY(e, mode)
             moved == [e EXCEPT !.y = y1]
         IN IF Collided(masks, px, moved)
            THEN [st EXCEPT !.es[i] = moved, !.collided = TRUE]
            ELSE LET pass == Passes(e, y1)
                     e2 == [moved EXCEPT !.passed = e.passed \/ pass]
                 IN EnemyLoop(
                      [es |-> [st.es EXCEPT ![i] = e2],
                       score |-> IF pass THEN st.score + Bonus(px, moved)
                                 ELSE st.score,
                       rem |-> IF Despawns(y1) THEN st.rem \cup {i} ELSE st.rem,
                       collided |-> FALSE],
                      i + 1, px, mode, masks)

\* `for r in rem: enemies.remove(r)`
RECURSIVE Without(_, _, _)
Without(es, rem, i) ==
    IF i > Len(es) THEN <<>>
    ELSE (IF i \in rem THEN <<>> ELSE <<es[i]>>) \o Without(es, rem, i + 1)

\* spawn_popup("+250" / "+150", pc, ...) of the obstacles the loop marked
\* passed (es before the loop, es1 after it), with the obstacle's lane
Popups(es, es1, px) ==
    LET marked == SelectSeq([i \in 1..Len(es) |-> i],
                            LAMBDA i : es1[i].passed /\ ~es[i].passed)
    IN [k \in 1..Len(marked) |->
          [txt |-> IF Bonus(px, es1[marked[k]]) = 250 THEN "+250" ELSE "+150",
           x |-> px + PLAYER_W \div 2,
           lane |-> es1[marked[k]].lane]]

\* seeded fault: the player is put on the target at once
InterpSnap(px, tx, dt) == tx

\* smooth lane interpolation: player_rect.x after one frame of dt ms
Interp(px, tx, dt) ==
    LET step == LaneChangeSpeed * dt * 6
    IN IF Abs(px - tx) > 1
       THEN IF px < tx THEN Min(tx, Trunc(px * Scale + step))
            ELSE Max(tx, Trunc(px * Scale - step))
       ELSE px

(* ------------------------------ database ------------------------------ *)
\* _hash(username, password): PBKDF2 salted with the username, taken to be
\* free of collisions
_hash(username, password) == <<"pbkdf2", username, password>>

\* seeded fault: the row is inserted twice
save_scoreTwice(tbl, uid, sc, mode) ==
    Append(Append(tbl, [user_id |-> uid, score |-> sc, difficulty |-> mode,
                        created_at |-> Len(tbl) + 1]),
           [user_id |-> uid, score |-> sc, difficulty |-> mode,
            created_at |-> Len(tbl) + 2])

\* seeded fault: INSERT OR REPLACE keyed on (user_id, difficulty)
save_scoreReplace(tbl, uid, sc, mode) ==
    IF \E i \in 1..Len(tbl) : tbl[i].user_id = uid /\ tbl[i].difficulty = mode
    THEN [i \in 1..Len(tbl) |->
            IF tbl[i].user_id = uid /\ tbl[i].difficulty = mode
            THEN [user_id |-> uid, score |-> sc, difficulty |-> mode,
                  created_at |-> Len(tbl) + 1]
            ELSE tbl[i]]
    ELSE Append(tbl, [user_id |-> uid, score |-> sc, difficulty |-> mode,
                      created_at |-> Len(tbl) + 1])

\* db.save_score: INSERT INTO scores (user_id, score, difficulty, created_at)
\* with created_at = datetime.utcnow().isoformat(); the clock is taken to
\* advance between two inserts and is read as the number of the insert
save_score(tbl, uid, sc, mode) ==
    Append(tbl, [user_id |-> uid, score |-> sc, difficulty |-> mode,
                 created_at |-> Len(tbl) + 1])

\* seeded fault: INSERT OR REPLACE INTO users
add_userReplace(us, username, password) ==
    IF \E i \in 1..Len(us) : us[i].username = username
    THEN [i \in 1..Len(us) |->
            IF us[i].username = username
            THEN [us[i] EXCEPT !.password = _hash(username, password),
                               !.selected_car = "player1.png"]
            ELSE us[i]]
    ELSE Append(us, [id |-> Len(us) + 1, username |-> username,
                     password |-> _hash(username, password),
                     selected_car |-> "player1.png"])

\* db.add_user: the users table after the call (username is UNIQUE, id is
\* AUTOINCREMENT, selected_car has its DEFAULT)
add_user(us, username, password) ==
    IF \E i \in 1..Len(us) : us[i].username = username
    THEN us
    ELSE Append(us, [id |-> Len(us) + 1, username |-> username,
                     password |-> _hash(username, password),
                     selected_car |-> "player1.png"])

\* db.verify_user: <<id, selected_car>> of the matching row, <<>> for None
verify_user(us, username, password) ==
    LET m == {i \in 1..Len(us) : /\ us[i].username = username
                                 /\ us[i].password = _hash(username, password)}
    IN IF m = {} THEN <<>>
       ELSE LET i == CHOOSE k \in m : TRUE IN <<us[i].id, us[i].selected_car>>

\* db.set_user_car: UPDATE users SET selected_car=? WHERE id=?
set_user_car(us, id, filename) ==
    [i \in 1..Len(us) |->
        IF us[i].id = id THEN [us[i] EXCEPT !.selected_car = filename] ELSE us[i]]

\* SQLite's order of the difficulty labels as TEXT (binary collation)
LabelRank(m) ==
    CASE m = "Casual" -> 1 [] m = "Heroic" -> 2 [] m = "Nightmare" -> 3 [] OTHER -> 0

\* seeded fault: the WHERE clause is dropped
WhereAny(s, mode) == TRUE

\* WHERE s.difficulty = ? of the queries taken when `mode` is truthy; "" is
\* mode=None
Where(s, mode) == mode = "" \/ s.difficulty = mode

\* FROM scores s JOIN users u ON s.user_id = u.id [WHERE ...]: the joined
\* rows (username, score, difficulty, created_at) in table order
Joined(us, tbl, mode) ==
    LET keep == SelectSeq(tbl, LAMBDA s :
                    /\ \E i \in 1..Len(us) : us[i].id = s.user_id
                    /\ Where(s, mode))
    IN [i \in 1..Len(keep) |->
          [username |-> us[CHOOSE k \in 1..Len(us) :
                             us[k].id = keep[i].user_id].username,
           score |-> keep[i].score,
           difficulty |-> keep[i].difficulty,
           created_at |-> keep[i].created_at]]

\* seeded fault: the bare column s.score instead of MAX(s.score)
FirstScore(j, name) ==
    j[CHOOSE i \in 1..Len(j) :
        /\ j[i].username = name
        /\ \A k \in 1..(i - 1) : j[k].username # name].score

\* MAX(s.score) of the group of `name`
MaxScore(j, name) ==
    LET S == {j[i].score : i \in {k \in 1..Len(j) : j[k].username = name}}
    IN CHOOSE x \in S : \A y \in S : x >= y

\* seeded fault: the label is taken from a record holding the best score
MaxLabelOfBest(j, name) ==
    LET S == {j[i].difficulty :
                i \in {k \in 1..Len(j) : /\ j[k].username = name
                                          /\ j[k].score = MaxScore(j, name)}}
    IN CHOOSE x \in S : TRUE

\* MAX(s.difficulty) of the group of `name`
MaxLabel(j, name) ==
    LET S == {j[i].difficulty : i \in {k \in 1..Len(j) : j[k].username = name}}
    IN CHOOSE x \in S : \A y \in S : LabelRank(x) >= LabelRank(y)

\* MAX(s.created_at) of the group of `name`
MaxCreated(j, name) ==
    LET S == {j[i].created_at : i \in {k \in 1..Len(j) : j[k].username = name}}
    IN CHOOSE x \in S : \A y \in S : x >= y

\* GROUP BY u.username: one row per username that has a joined row
Grouped(us, j, mode) ==
    LET names == SelectSeq([i \in 1..Len(us) |-> us[i].username],
                           LAMBDA n : \E i \in 1..Len(j) : j[i].username = n)
    IN [i \in 1..Len(names) |->
          [username |-> names[i],
           score |-> MaxScore(j, names[i]),
           difficulty |-> IF mode # "" THEN mode ELSE MaxLabel(j, names[i]),
           created_at |-> MaxCreated(j, names[i])]]

\* seeded fault: ORDER BY score ASC
AscPerms(rs) ==
    {p \in [1..Len(rs) -> 1..Len(rs)] :
        /\ \A i, k \in 1..Len(rs) : p[i] = p[k] => i = k
        /\ \A i, k \in 1..Len(rs) : i < k => rs[p[i]].score <= rs[p[k]].score}

\* ORDER BY score DESC: every order of the rows SQLite may produce (the
\* order of rows with equal scores is not specified)
DescPerms(rs) ==
    {p \in [1..Len(rs) -> 1..Len(rs)] :
        /\ \A i, k \in 1..Len(rs) : p[i] = p[k] => i = k
        /\ \A i, k \in 1..Len(rs) : i < k => rs[p[i]].score >= rs[p[k]].score}

\* seeded fault: one row too many
LimitRowsPlusOne(rs, limit) ==
    IF limit < 0 THEN rs ELSE SubSeq(rs, 1, Min(limit + 1, Len(rs)))

\* LIMIT ?: a negative limit is no limit in SQLite
LimitRows(rs, limit) ==
    IF limit < 0 THEN rs ELSE SubSeq(rs, 1, Min(limit, Len(rs)))

\* db.top_scores: the row lists the call may return
top_scores(us, tbl, limit, mode, distinct) ==
    LET j == Joined(us, tbl, mode)
        rs == IF distinct THEN Grouped(us, j, mode) ELSE j
    IN {LimitRows([i \in 1..Len(rs) |-> rs[p[i]]], limit) : p \in DescPerms(rs)}

(* ------------------------------- inputs ------------------------------- *)
\* rnd.uniform(spawn_min, spawn_max) is sampled at the two ends of its range
Speeds(mode) == {DIFF(mode).min, DIFF(mode).max}

\* one call of spawn() plus the jitter drawn after it: the shuffled lane
\* order, rnd.randint(0, 180), the speed and rnd.randint(-200, 200).
\* The session specification leaves the lane order free and takes the nearest
\* and fastest obstacle and the soonest next spawn.
FastDraws(mode) ==
    [order : LaneOrders, off : {0}, speed : {DIFF(mode).max}, jit : {-200}]

\* The spawner specification also draws the slowest obstacle.
SpawnerDraws(mode) ==
    [order : LaneOrders, off : {0}, speed : Speeds(mode), jit : {-200}]

\* The head-on specification puts the start lane first in every shuffle,
\* samples the speed range evenly and takes both ends of the spawn offset.
HeadOnSpeeds(mode) ==
    {DIFF(mode).min + (k * (DIFF(mode).max - DIFF(mode).min)) \div SpeedSteps :
        k \in 0..SpeedSteps}

HeadOnDraws(mode) ==
    [order : {<<1, 0, 2>>}, off : {0, 180}, speed : HeadOnSpeeds(mode),
     jit : {-200}]

\* The timer specification takes both ends of the jitter rnd.randint(-200,
\* 200) and a shuffle that tries the outer lanes first.
TimerDraws(mode) ==
    [order : {<<0, 2, 1>>}, off : {0}, speed : {DIFF(mode).max},
     jit : {-200, 200}]

\* The wall specification takes the shuffles that fill lane 0, lane 2 and
\* lane 1 in turn (n obstacles created so far), both ends of the speed range
\* and both ends of the spawn offset.
WallOrder(n) ==
    CASE n % 3 = 0 -> <<0, 2, 1>>
      [] n % 3 = 1 -> <<2, 1, 0>>
      [] OTHER -> <<1, 0, 2>>

WallDraws(mode, n) ==
    [order : {WallOrder(n)}, off : {0, 180}, speed : Speeds(mode), jit : {-200}]

\* The chase specification takes the shuffle that tries lane 0, then lane 2,
\* then the player's lane, both ends of the speed range and the soonest next
\* spawn.
ChaseDraws(mode) ==
    [order : {<<0, 2, 1>>}, off : {0}, speed : Speeds(mode), jit : {-200}]

\* one event of pg.event.get() in the gameplay loop ("P" is the P key or a
\* click on the pause button), or "none"
PlayEvents == {"none", "QUIT", "ESC", "P", "LEFT", "RIGHT", "L"}
\* in the pause overlay: "RESUME" is Enter, P or the Resume button, "ESC" is
\* Esc or the Quit button, "OVERLAY" the Leaderboards or Help button
PauseEvents == {"none", "QUIT", "RESUME", "ESC", "LEFT", "RIGHT", "OVERLAY"}
\* in the main menu: "START" is Enter or Start Game, "QUIT" the window close
\* or the Quit button, "OVERLAY" Leaderboards or Help
MenuEvents == {"none", "QUIT", "START", "OVERLAY"}
\* what show_game_over_screen returns
OverEvents == {"quit", "menu", "restart", "leaderboard"}

\* arguments of the db calls in the database specification
Names == {"ann", "bob"}
Passwords == {"pw1", "pw2"}
Cars == {"player1.png", "player2.png"}
ScoreValues == {150, 400}
DbModes == {"Casual", "Nightmare"}

(* -------------------------------- Init -------------------------------- *)
\* seeded fault: the spawn interval is taken from DIFF['Casual']
LocalsCasualInterval(mode) ==
    [pc |-> "Menu", now |-> 0, score |-> 0, enemies |-> <<>>, last_spawn |-> 0,
     spawn_ms |-> DIFF("Casual").spawn_ms, cur_lane |-> 1,
     target_x |-> LANE_X(1), player_x |-> LANE_X(1), paused |-> FALSE,
     running |-> TRUE]

\* the locals of run_game when the main menu loop is entered
Locals(mode) ==
    [pc |-> "Menu", now |-> 0, score |-> 0, enemies |-> <<>>, last_spawn |-> 0,
     spawn_ms |-> DIFF(mode).spawn_ms, cur_lane |-> 1, target_x |-> LANE_X(1),
     player_x |-> LANE_X(1), paused |-> FALSE, running |-> TRUE]

\* App.__init__ with the default config.json, and the App after the login of
\* the user uid (0 for nobody; None is "" for the names); modal: the resume
\* dialog is open
Launcher(uid) ==
    [user_id |-> uid,
     username |-> IF uid = 0 THEN "" ELSE "ann",
     selected_car |-> "player1.png",
     cfg |-> [selected_car |-> "player1.png",
              last_username |-> IF uid = 0 THEN "" ELSE "ann",
              session_active |-> uid # 0],
     modal |-> FALSE]

\* run_game(username, user_id, selected_car, difficulty) entered on a machine
\* whose frames take fms milliseconds
Start(fms, uids, masks) ==
    /\ difficulty \in Modes
    /\ user_id \in uids
    /\ player_mask \in masks
    /\ enemy_mask = player_mask
    /\ users = IF user_id = 0 THEN <<>>
               ELSE <<[id |-> user_id, username |-> "ann",
                       password |-> _hash("ann", "pw1"),
                       selected_car |-> "player1.png"]>>
    /\ ret = [op |-> "none"]
    /\ app = Launcher(user_id)
    /\ frame_ms = fms
    /\ pc = Locals(difficulty).pc
    /\ now = Locals(difficulty).now
    /\ score = Locals(difficulty).score
    /\ enemies = Locals(difficulty).enemies
    /\ last_spawn = Locals(difficulty).last_spawn
    /\ spawn_ms = Locals(difficulty).spawn_ms
    /\ cur_lane = Locals(difficulty).cur_lane
    /\ target_x = Locals(difficulty).target_x
    /\ player_x = Locals(difficulty).player_x
    /\ paused = Locals(difficulty).paused
    /\ running = Locals(difficulty).running
    /\ collided = FALSE
    /\ evs = 0
    /\ idle = 0
    /\ next_uid = 0
    /\ last_lane = -1
    /\ spawn_res = "idle"
    /\ spawned = <<>>
    /\ popups = <<>>
    /\ last_ev = [key |-> "none", lane |-> Locals(difficulty).cur_lane]
    /\ pause_snap = <<>>
    /\ resume_snap = <<>>
    /\ scores = <<>>
    /\ run = 1
    /\ ticks = 0
    /\ fails = 0
    /\ over = 0

\* 60 frames per second: clock.tick(FPS) returns 16 or 17
Init == Start(17, {0, 1}, {TRUE})

\* a guest on a machine that reaches 10 frames per second
InitSlow == Start(100, {0}, {TRUE})

(* ------------------------------ actions ------------------------------- *)
\* score, obstacles and the time elapsed toward the next spawn at clock nw
Snap(nw) == [score |-> score, enemies |-> enemies, elapsed |-> nw - last_spawn]

\* seeded fault: the exception of save_score is not caught
EndOfRunFatal(sc) ==
    /\ over' = over + 1
    /\ IF user_id # 0
       THEN \E ok \in BOOLEAN :
              /\ pc' = IF ok THEN "GameOver" ELSE "Returned"
              /\ scores' = IF ok THEN save_score(scores, user_id, sc, difficulty)
                           ELSE scores
              /\ fails' = IF ok THEN fails ELSE fails + 1
       ELSE pc' = "GameOver" /\ UNCHANGED <<scores, fails>>

\* seeded fault: the score is saved without the `if user_id` test
EndOfRunUnguarded(sc) ==
    /\ pc' = "GameOver"
    /\ over' = over + 1
    /\ \E ok \in BOOLEAN :
         /\ scores' = IF ok THEN save_score(scores, user_id, sc, difficulty)
                      ELSE scores
         /\ fails' = IF ok THEN fails ELSE fails + 1

\* after the gameplay loop: save the score if logged in, show game over
EndOfRun(sc) ==
    /\ pc' = "GameOver"
    /\ over' = over + 1
    /\ IF user_id # 0
       THEN \E ok \in BOOLEAN :
              /\ scores' = IF ok THEN save_score(scores, user_id, sc, difficulty)
                           ELSE scores
              /\ fails' = IF ok THEN fails ELSE fails + 1
       ELSE UNCHANGED <<scores, fails>>

\* obstacle update, removal and lane interpolation of one frame, then the
\* `while running` test
Advance(es, ls, sms, res, nw, running1, tx) ==
    LET st == EnemyLoop([es |-> es, score |-> score, rem |-> {},
                         collided |-> FALSE], 1, player_x, difficulty,
                        have_masks)
        running2 == running1 /\ ~st.collided
        spawned1 == Len(es) > Len(enemies)
    IN /\ now' = nw
       /\ last_spawn' = ls
       /\ spawn_ms' = sms
       /\ spawn_res' = res
       /\ spawned' = IF spawned1 THEN <<es[Len(es)]>> ELSE <<>>
       /\ popups' = Popups(es, st.es, player_x)
       /\ next_uid' = IF spawned1 THEN next_uid + 1 ELSE next_uid
       /\ last_lane' = IF spawned1 THEN es[Len(es)].lane ELSE last_lane
       /\ enemies' = Without(st.es, st.rem, 1)
       /\ score' = st.score
       /\ collided' = st.collided
       /\ player_x' = Interp(player_x, tx, frame_ms)
       /\ running' = running2
       /\ ticks' = ticks + 1
       /\ IF running2
          THEN pc' = "Playing" /\ UNCHANGED <<scores, fails, over>>
          ELSE EndOfRun(st.score)

\* seeded fault: the timer fires at the interval (>= for >)
RestOfFrameAtInterval(nw, running1, tx, D) ==
    IF nw - last_spawn >= spawn_ms
    THEN \E d \in D :
           LET es == spawn(enemies, difficulty, d.order, d.off, d.speed, next_uid)
           IN Advance(es, nw,
                      Max(SpawnFloor, DIFF(difficulty).spawn_ms + d.jit),
                      IF Len(es) > Len(enemies) THEN "spawned" ELSE "declined",
                      nw, running1, tx)
    ELSE Advance(enemies, last_spawn, spawn_ms, "idle", nw, running1, tx)

\* the frame from `# spawn timing` on, at clock nw
RestOfFrame(nw, running1, tx, D) ==
    IF nw - last_spawn > spawn_ms
    THEN \E d \in D :
           LET es == spawn(enemies, difficulty, d.order, d.off, d.speed, next_uid)
           IN Advance(es, nw,
                      Max(SpawnFloor, DIFF(difficulty).spawn_ms + d.jit),
                      IF Len(es) > Len(enemies) THEN "spawned" ELSE "declined",
                      nw, running1, tx)
    ELSE Advance(enemies, last_spawn, spawn_ms, "idle", nw, running1, tx)

\* one frame of the main menu loop that handles the event ev, or a stretch
\* of IdleFrames frames without an event
MenuFrame(ev) ==
    /\ pc = "Menu"
    /\ ev = "none" => idle < MaxIdle
    /\ ev # "none" => evs < MaxEvents
    /\ evs' = IF ev = "none" THEN evs ELSE evs + 1
    /\ idle' = IF ev = "none" THEN idle + 1 ELSE idle
    /\ now' = now + (CASE ev = "OVERLAY" -> frame_ms + OverlayMs
                        [] ev = "none" -> IdleFrames * frame_ms
                        [] OTHER -> frame_ms)
    /\ pc' = CASE ev = "START" -> "Playing"
               [] ev = "QUIT" -> "Returned"
               [] OTHER -> "Menu"
    /\ UNCHANGED <<difficulty, user_id, player_mask, enemy_mask,
                   frame_ms, score, enemies,
                   last_spawn, spawn_ms, cur_lane, target_x, player_x, paused,
                   running, collided, scores, run, ticks, next_uid, last_lane,
                   spawn_res, spawned, popups, last_ev, pause_snap,
                   resume_snap, fails, over, users, ret, app>>

\* seeded fault: the lane index is not clamped
LaneAfterNoClamp(ev, lane) ==
    CASE ev = "LEFT" -> lane - 1
      [] ev = "RIGHT" -> lane + 1
      [] OTHER -> lane

\* K_LEFT / K_a and K_RIGHT / K_d: cur_lane after the key event ev
LaneAfter(ev, lane) ==
    CASE ev = "LEFT" -> Max(0, lane - 1)
      [] ev = "RIGHT" -> Min(LANES - 1, lane + 1)
      [] OTHER -> lane

\* one frame of the gameplay loop that handles the event ev
PlayFrame(ev, D, T) ==
    /\ pc = "Playing"
    /\ ticks < T
    /\ ev # "none" => evs < MaxEvents /\ ticks % InputPeriod = 0
    /\ evs' = IF ev = "none" THEN evs ELSE evs + 1
    /\ LET nw == now + frame_ms + (IF ev = "L" THEN OverlayMs ELSE 0)
           lane1 == LaneAfter(ev, cur_lane)
           tx1 == IF ev \in {"LEFT", "RIGHT"} THEN LANE_X(lane1) ELSE target_x
           running1 == ev \notin {"QUIT", "ESC"}
       IN /\ cur_lane' = lane1
          /\ target_x' = tx1
          /\ resume_snap' = <<>>
          /\ last_ev' = [key |-> ev, lane |-> cur_lane]
          /\ IF ev = "P"
             THEN /\ paused' = ~paused
                  /\ pc' = "Paused"
                  /\ now' = nw
                  /\ running' = running1
                  /\ pause_snap' = <<Snap(nw)>>
                  /\ UNCHANGED <<score, enemies, last_spawn, spawn_ms, player_x,
                                 collided, scores, ticks, next_uid, last_lane,
                                 spawn_res, spawned, popups, fails, over>>
             ELSE /\ paused' = paused
                  /\ pause_snap' = <<>>
                  /\ RestOfFrame(nw, running1, tx1, D)
    /\ UNCHANGED <<difficulty, user_id, player_mask, enemy_mask,
                   frame_ms, run, idle, users,
                   ret, app>>

\* one frame of the pause overlay loop that handles the event ev, or a stretch
\* of IdleFrames frames without an event; leaving the overlay runs the rest
\* of the gameplay frame that opened it
PauseFrame(ev, D) ==
    /\ pc = "Paused"
    /\ ev = "none" => idle < MaxIdle
    /\ ev # "none" => evs < MaxEvents
    /\ evs' = IF ev = "none" THEN evs ELSE evs + 1
    /\ idle' = IF ev = "none" THEN idle + 1 ELSE idle
    /\ LET nw == now + (CASE ev = "OVERLAY" -> frame_ms + OverlayMs
                          [] ev = "none" -> IdleFrames * frame_ms
                          [] OTHER -> frame_ms)
       IN CASE ev = "QUIT" ->
                 /\ pc' = "Returned"
                 /\ now' = nw
                 /\ UNCHANGED <<score, enemies, last_spawn, spawn_ms, player_x,
                                paused, running, collided, scores, ticks,
                                next_uid, last_lane, spawn_res, spawned,
                                popups, pause_snap, resume_snap, fails, over>>
            [] ev = "RESUME" ->
                 /\ paused' = FALSE
                 /\ resume_snap' = <<Snap(nw)>>
                 /\ UNCHANGED pause_snap
                 /\ RestOfFrame(nw, running, target_x, D)
            [] ev = "ESC" ->
                 /\ paused' = FALSE
                 /\ UNCHANGED <<pause_snap, resume_snap>>
                 /\ RestOfFrame(nw, FALSE, target_x, D)
            [] OTHER ->
                 /\ pc' = "Paused"
                 /\ now' = nw
                 /\ UNCHANGED <<score, enemies, last_spawn, spawn_ms, player_x,
                                paused, running, collided, scores, ticks,
                                next_uid, last_lane, spawn_res, spawned,
                                popups, pause_snap, resume_snap, fails, over>>
    /\ last_ev' = [key |-> ev, lane |-> cur_lane]
    /\ UNCHANGED <<difficulty, user_id, player_mask, enemy_mask,
                   frame_ms, run, cur_lane,
                   target_x, users, ret, app>>

\* what run_game does with the result of show_game_over_screen
GameOverChoice(res) ==
    /\ pc = "GameOver"
    /\ IF res = "restart"
       THEN /\ run < MaxRuns
            /\ run' = run + 1
            /\ pc' = Locals(difficulty).pc
            /\ now' = Locals(difficulty).now
            /\ score' = Locals(difficulty).score
            /\ enemies' = Locals(difficulty).enemies
            /\ last_spawn' = Locals(difficulty).last_spawn
            /\ spawn_ms' = Locals(difficulty).spawn_ms
            /\ cur_lane' = Locals(difficulty).cur_lane
            /\ target_x' = Locals(difficulty).target_x
            /\ player_x' = Locals(difficulty).player_x
            /\ paused' = Locals(difficulty).paused
            /\ running' = Locals(difficulty).running
            /\ collided' = FALSE
            /\ evs' = 0
            /\ idle' = 0
            /\ next_uid' = 0
            /\ last_lane' = -1
            /\ spawn_res' = "idle"
            /\ spawned' = <<>>
            /\ popups' = <<>>
            /\ last_ev' = [key |-> "none", lane |-> Locals(difficulty).cur_lane]
            /\ pause_snap' = <<>>
            /\ resume_snap' = <<>>
       ELSE /\ pc' = "Returned"
            /\ last_ev' = [key |-> res, lane |-> cur_lane]
            /\ UNCHANGED <<now, score, enemies, last_spawn, spawn_ms, cur_lane,
                           target_x, player_x, paused, running, collided, run,
                           evs, idle, next_uid, last_lane, spawn_res, spawned,
                           popups, pause_snap, resume_snap>>
    /\ UNCHANGED <<difficulty, user_id, player_mask, enemy_mask,
                   frame_ms, scores, ticks,
                   fails, over, users, ret, app>>

\* an exception raised by a call of a gameplay frame (pygame, the fonts,
\* sqlite in the leaderboard screen): the gameplay loop has no handler, the
\* exception leaves run_game and is caught by Launcher._launch_game
Crash ==
    /\ pc \in {"Playing", "Paused"}
    /\ pc' = "Crashed"
    /\ UNCHANGED <<difficulty, user_id, player_mask, enemy_mask,
                   frame_ms, now, score,
                   enemies, last_spawn, spawn_ms, cur_lane, target_x, player_x,
                   paused, running, collided, scores, run, ticks, evs, idle,
                   next_uid, last_lane, spawn_res, spawned, popups, last_ev,
                   pause_snap, resume_snap, fails, over, users, ret, app>>

\* everything but the two tables and the latest db call
runvars == <<pc, difficulty, user_id, player_mask, enemy_mask,
                   frame_ms, now, score, enemies,
             last_spawn, spawn_ms, cur_lane, target_x, player_x, paused,
             running, collided, run, ticks, evs, idle, next_uid, last_lane,
             spawn_res, spawned, popups, last_ev, pause_snap, resume_snap,
             fails, over>>

\* launcher: db.add_user(u, p); accounts are created with the first
\* password, the others are tried on taken names
DbAddUser(username, password) ==
    /\ (\E i \in 1..Len(users) : users[i].username = username)
          \/ (Len(users) < MaxUsers /\ password = "pw1")
    /\ users' = add_user(users, username, password)
    /\ ret' = [op |-> "add_user", args |-> <<username, password>>,
               val |-> Len(users') > Len(users)]
    /\ UNCHANGED <<scores, app, runvars>>

\* launcher: db.verify_user(u, p)
DbVerifyUser(username, password) ==
    /\ ret' = [op |-> "verify_user", args |-> <<username, password>>,
               val |-> verify_user(users, username, password)]
    /\ UNCHANGED <<users, scores, app, runvars>>

\* launcher: db.set_user_car(user_id, filename)
DbSetUserCar(id, filename) ==
    /\ users' = set_user_car(users, id, filename)
    /\ ret' = [op |-> "set_user_car", args |-> <<id, filename>>, val |-> "None"]
    /\ UNCHANGED <<scores, app, runvars>>

\* db.save_score(user_id, score, difficulty); ok is FALSE when sqlite raises
DbSaveScore(id, sc, mode, ok) ==
    /\ Len(scores) < MaxRows
    /\ scores' = IF ok THEN save_score(scores, id, sc, mode) ELSE scores
    /\ ret' = [op |-> "save_score", args |-> <<id, sc, mode>>,
               val |-> IF ok THEN "None" ELSE "raised"]
    /\ UNCHANGED <<users, app, runvars>>

\* db.top_scores(limit, mode, distinct)
DbTopScores(limit, mode, distinct) ==
    /\ \E rows \in top_scores(users, scores, limit, mode, distinct) :
         ret' = [op |-> "top_scores", args |-> <<limit, mode, distinct>>,
                 val |-> rows]
    /\ UNCHANGED <<users, scores, app, runvars>>

\* Launcher.create_account with the entries u and p (both non-empty)
create_account(u, p) ==
    /\ (\E i \in 1..Len(users) : users[i].username = u)
          \/ (Len(users) < MaxUsers /\ p = "pw1")
    /\ users' = add_user(users, u, p)
    /\ ret' = [op |-> "add_user", args |-> <<u, p>>,
               val |-> Len(users') > Len(users)]
    /\ app' = IF ret'.val
              THEN [app EXCEPT !.cfg.last_username = u,
                               !.cfg.session_active = FALSE]
              ELSE app
    /\ UNCHANGED <<scores, runvars>>

\* seeded fault: a refused login logs the current user out
do_loginDropsSession(u, p) ==
    LET row == verify_user(users, u, p)
    IN /\ ret' = [op |-> "verify_user", args |-> <<u, p>>, val |-> row]
       /\ app' = IF row # <<>>
                 THEN LET car == IF row[2] # "" THEN row[2] ELSE app.selected_car
                      IN [user_id |-> row[1], username |-> u, selected_car |-> car,
                          cfg |-> [selected_car |-> car, last_username |-> u,
                                   session_active |-> TRUE],
                          modal |-> FALSE]
                 ELSE [app EXCEPT !.user_id = 0, !.username = "",
                                  !.cfg.session_active = FALSE]
       /\ UNCHANGED <<users, scores, runvars>>

\* Launcher.do_login with the entries u and p (both non-empty)
do_login(u, p) ==
    LET row == verify_user(users, u, p)
    IN /\ ret' = [op |-> "verify_user", args |-> <<u, p>>, val |-> row]
       /\ app' = IF row # <<>>
                 THEN LET car == IF row[2] # "" THEN row[2] ELSE app.selected_car
                      IN [user_id |-> row[1], username |-> u, selected_car |-> car,
                          cfg |-> [selected_car |-> car, last_username |-> u,
                                   session_active |-> TRUE],
                          modal |-> FALSE]
                 ELSE app
       /\ UNCHANGED <<users, scores, runvars>>

\* Launcher.pick_car(filename)
pick_car(filename) ==
    /\ users' = IF app.user_id # 0
                THEN set_user_car(users, app.user_id, filename) ELSE users
    /\ ret' = IF app.user_id # 0
              THEN [op |-> "set_user_car", args |-> <<app.user_id, filename>>,
                    val |-> "None"]
              ELSE ret
    /\ app' = [app EXCEPT !.selected_car = filename,
                          !.cfg.selected_car = filename]
    /\ UNCHANGED <<scores, runvars>>

\* Launcher.logout
logout ==
    /\ app.user_id # 0
    /\ app' = [app EXCEPT !.user_id = 0, !.username = "",
                          !.cfg.last_username = "",
                          !.cfg.session_active = FALSE,
                          !.selected_car = app.cfg.selected_car]
    /\ UNCHANGED <<users, scores, ret, runvars>>

\* the launcher is closed and started again: App.__init__ over the config.json
\* the last process left, a process that has made no db call yet
App_init ==
    /\ app' = [user_id |-> 0, username |-> "",
               selected_car |-> app.cfg.selected_car,
               cfg |-> app.cfg,
               modal |-> app.cfg.last_username # "" /\ app.cfg.session_active]
    /\ ret' = [op |-> "none"]
    /\ UNCHANGED <<users, scores, runvars>>

\* seeded fault: the session is resumed on the persisted name alone
do_resumeNoPassword(p) ==
    /\ app.modal
    /\ \E i \in 1..Len(users) :
          /\ users[i].username = app.cfg.last_username
          /\ app' = [app EXCEPT !.user_id = users[i].id,
                                !.username = users[i].username,
                                !.selected_car = users[i].selected_car,
                                !.modal = FALSE]
    /\ UNCHANGED <<users, scores, ret, runvars>>

\* do_resume of _show_resume_modal with the entry p (non-empty)
do_resume(p) ==
    /\ app.modal
    /\ LET user == app.cfg.last_username
           row == verify_user(users, user, p)
       IN /\ ret' = [op |-> "verify_user", args |-> <<user, p>>, val |-> row]
          /\ app' = IF row # <<>>
                    THEN [app EXCEPT
                            !.user_id = row[1], !.username = user,
                            !.selected_car = IF row[2] # "" THEN row[2]
                                             ELSE app.selected_car,
                            !.cfg.session_active = TRUE,
                            !.cfg.last_username = user,
                            !.modal = FALSE]
                    ELSE app
    /\ UNCHANGED <<users, scores, runvars>>

\* Back or Escape in the resume dialog
resume_back ==
    /\ app.modal
    /\ app' = [app EXCEPT !.modal = FALSE]
    /\ UNCHANGED <<users, scores, ret, runvars>>

\* Launcher._launch_game: run_game entered with the launcher's identity
_launch_game ==
    /\ ~app.modal
    /\ run <= MaxRuns
    /\ run' = run + 1
    /\ user_id' = app.user_id
    /\ UNCHANGED <<pc, difficulty, player_mask, enemy_mask, frame_ms, now,
                   score, enemies, last_spawn, spawn_ms, cur_lane, target_x,
                   player_x, paused, running, collided, scores, ticks, evs,
                   idle, next_uid, last_lane, spawn_res, spawned, popups,
                   last_ev, pause_snap, resume_snap, fails, over, users, ret,
                   app>>

Next ==
    \/ \E ev \in MenuEvents : MenuFrame(ev)
    \/ \E ev \in PlayEvents : PlayFrame(ev, FastDraws(difficulty), MaxTicks)
    \/ \E ev \in PauseEvents : PauseFrame(ev, FastDraws(difficulty))
    \/ \E res \in OverEvents : GameOverChoice(res)

Spec == Init /\ [][Next]_vars

\* a session without gameplay input on the slow machine: every draw of the
\* spawner, the player staying in the start lane
NextSpawner ==
    \/ \E ev \in {"none", "START"} : MenuFrame(ev)
    \/ PlayFrame("none", SpawnerDraws(difficulty), MaxSpawnTicks)

SpecSpawner == InitSlow /\ [][NextSpawner]_vars

\* a guest who never touches the keys, with or without collision masks
InitHeadOn == Start(17, {0}, BOOLEAN)

\* the obstacles come down the start lane first, at every sampled speed
NextHeadOn ==
    \/ \E ev \in {"none", "START"} : MenuFrame(ev)
    \/ PlayFrame("none", HeadOnDraws(difficulty), MaxHeadOnTicks)

SpecHeadOn == InitHeadOn /\ [][NextHeadOn]_vars

\* a guest steering with the arrow keys in a build without collision masks
InitDodge == Start(16, {0}, {FALSE})

NextDodge ==
    \/ \E ev \in {"none", "START"} : MenuFrame(ev)
    \/ \E ev \in {"none", "LEFT", "RIGHT"} :
         PlayFrame(ev, FastDraws(difficulty), MaxTicks)

SpecDodge == InitDodge /\ [][NextDodge]_vars

\* a guest who never touches the keys at 60 frames per second, obstacles of
\* unequal speed filling the three lanes in turn
NextWall ==
    \/ \E ev \in {"none", "START"} : MenuFrame(ev)
    \/ PlayFrame("none", WallDraws(difficulty, next_uid), MaxWallTicks)

SpecWall == InitHeadOn /\ [][NextWall]_vars

\* a guest who never touches the keys while obstacles of both speeds come
\* down the outer lanes
NextChase ==
    \/ \E ev \in {"none", "START"} : MenuFrame(ev)
    \/ PlayFrame("none", ChaseDraws(difficulty), MaxChaseTicks)

SpecChase == InitHeadOn /\ [][NextChase]_vars

\* a logged-in player on the slow machine, without gameplay input, and a
\* frame that may raise
InitCrash == Start(100, {1}, {TRUE})

NextCrash ==
    \/ \E ev \in {"none", "START"} : MenuFrame(ev)
    \/ PlayFrame("none", SpawnerDraws(difficulty), MaxSpawnTicks)
    \/ Crash

SpecCrash == InitCrash /\ [][NextCrash]_vars

\* the spawn timer on the slow machine, without gameplay input
NextTimer ==
    \/ \E ev \in {"none", "START"} : MenuFrame(ev)
    \/ PlayFrame("none", TimerDraws(difficulty), MaxSpawnTicks)

SpecTimer == InitSlow /\ [][NextTimer]_vars

\* placements of the collision test: the player anywhere on its row, the
\* obstacle in a lane at any height, each around the edges of the bounding
\* boxes (80 x 140) and of the shrunk hit boxes (52 x 91)
TestOffsetsX == {-81, -80, -79, -53, -52, -51, -1, 0, 1, 51, 52, 53, 79, 80, 81}
TestOffsetsY == {-141, -140, -139, -92, -91, -90, -1, 0, 1, 90, 91, 92, 139,
                 140, 141}

\* one iteration of `for e in enemies` about to run its collision test, with
\* or without masks, for every such placement
InitCollide ==
    /\ difficulty \in Modes
    /\ user_id = 0
    /\ player_mask \in BOOLEAN
    /\ enemy_mask \in BOOLEAN
    /\ users = <<>>
    /\ ret = [op |-> "none"]
    /\ app = Launcher(user_id)
    /\ frame_ms = 17
    /\ pc = "Playing"
    /\ now = 0
    /\ score = 0
    /\ \E l \in 0..(LANES - 1), dy \in TestOffsetsY :
          enemies = <<[lane |-> l, y |-> PlayerY + dy, speed |-> DIFF(difficulty).min,
                       passed |-> FALSE, uid |-> 0]>>
    /\ last_spawn = 0
    /\ spawn_ms = DIFF(difficulty).spawn_ms
    /\ cur_lane = 1
    /\ target_x = LANE_X(1)
    /\ \E l \in 0..(LANES - 1), dx \in TestOffsetsX :
          /\ player_x = LANE_X(l) + dx
          /\ player_x >= LANE_X(0) /\ player_x <= LANE_X(LANES - 1)
    /\ paused = FALSE
    /\ running = TRUE
    /\ collided = FALSE
    /\ evs = 0
    /\ idle = 0
    /\ next_uid = 1
    /\ last_lane = enemies[1].lane
    /\ spawn_res = "idle"
    /\ spawned = <<>>
    /\ popups = <<>>
    /\ last_ev = [key |-> "none", lane |-> 1]
    /\ pause_snap = <<>>
    /\ resume_snap = <<>>
    /\ scores = <<>>
    /\ run = 1
    /\ ticks = 0
    /\ fails = 0
    /\ over = 0

\* the collision test of the iteration and `if collided: running = False`
CollisionTest ==
    /\ pc = "Playing"
    /\ collided' = Collided(have_masks, player_x, enemies[1])
    /\ running' = ~collided'
    /\ pc' = "Tested"
    /\ UNCHANGED <<difficulty, user_id, player_mask, enemy_mask,
                   frame_ms, now, score,
                   enemies, last_spawn, spawn_ms, cur_lane, target_x, player_x,
                   paused, scores, run, ticks, evs, idle, next_uid, last_lane,
                   spawn_res, spawned, popups, last_ev, pause_snap, resume_snap,
                   fails, over, users, ret, app>>

NextCollide == CollisionTest

SpecCollide == InitCollide /\ [][NextCollide]_vars

\* the database alone: any sequence of the five calls of db.py
InitDb == Start(17, {0}, {TRUE}) /\ difficulty = "Casual"

NextDb ==
    \/ \E n \in Names, p \in Passwords : DbAddUser(n, p)
    \/ \E n \in Names, p \in Passwords : DbVerifyUser(n, p)
    \/ \E id \in 1..MaxUsers, c \in Cars : DbSetUserCar(id, c)
    \/ \E id \in 1..MaxUsers, sc \in ScoreValues, m \in DbModes, ok \in BOOLEAN :
         DbSaveScore(id, sc, m, ok)
    \/ \E l \in 0..MaxLimit, m \in DbModes \cup {""}, d \in BOOLEAN :
         DbTopScores(l, m, d)

SpecDb == InitDb /\ [][NextDb]_vars

\* the launcher's account handling over the database
NextLauncher ==
    \/ \E n \in Names, p \in Passwords : create_account(n, p)
    \/ \E n \in Names, p \in Passwords : do_login(n, p)
    \/ \E c \in Cars : pick_car(c)
    \/ logout

SpecLauncher == InitDb /\ [][NextLauncher]_vars

\* the launcher over several processes: the account handlers while no dialog
\* holds the input, the resume dialog, the launch of a run and the restart
NextSession ==
    \/ ~app.modal /\ NextLauncher
    \/ App_init
    \/ \E p \in Passwords : do_resume(p)
    \/ resume_back
    \/ _launch_game

SpecSession == InitDb /\ [][NextSession]_vars

(* ------------------------------- claims ------------------------------- *)
\* the uids of the obstacles of a list, and the obstacle of a list with uid u
Uids(es) == {es[i].uid : i \in 1..Len(es)}
ByUid(es, u) == es[CHOOSE i \in 1..Len(es) : es[i].uid = u]
Members(es) == {es[i] : i \in 1..Len(es)}

\* C1: the session is at the game over screen only as the result of a
\* collision: whenever pc is "GameOver" the obstacle loop of the run's last
\* frame reported a collision (Esc, the window close and the pause overlay's
\* Quit never lead there).
C1_GameOverOnlyByCollision == pc = "GameOver" => collided

\* the frame that detects a collision: the session goes to game over, and
\* every obstacle after the first colliding one is as it was before the frame
\* (or as spawn() created it in this frame): not moved, not flagged
C2_CollisionFrame ==
    (~collided /\ collided') =>
        /\ pc' = "GameOver"
        /\ \E i \in 1..Len(enemies') :
             /\ Collided(have_masks, player_x, enemies'[i])
             /\ \A j \in 1..(i - 1) : ~Collided(have_masks, player_x, enemies'[j])
             /\ \A j \in (i + 1)..Len(enemies') :
                  \/ enemies'[j] \in Members(enemies)
                  \/ spawned' = <<enemies'[j]>>

\* once the run has collided nothing of it moves: no frame, no score, no obstacle
C2_AfterCollision ==
    (collided /\ run' = run) =>
        /\ ticks' = ticks
        /\ score' = score
        /\ enemies' = enemies
        /\ pc' \in {"GameOver", "Returned"}

\* C2: a collision is terminal for the run: in the frame that detects it no
\* obstacle processed after the colliding one is moved or scored, no later
\* frame runs, the score does not change afterwards, and the session is at
\* game over.
C2_CollisionTerminal ==
    /\ [](collided => pc \in {"GameOver", "Returned"})
    /\ [][C2_CollisionFrame /\ C2_AfterCollision]_vars

\* a run ended by a collision with an obstacle that was not the last of the list
C2_Witness ==
    /\ collided /\ pc = "GameOver" /\ player_x = target_x
    /\ \E i \in 1..(Len(enemies) - 1) : Collided(have_masks, player_x, enemies[i])

\* C3: at the moment the session resumes from the pause overlay, the score,
\* the obstacles and the time elapsed toward the next spawn are what they were
\* at the moment of pausing.
C3_ResumePreservesRunState == resume_snap # <<>> => resume_snap = pause_snap

\* C4 as stated: a logged-in session has one score row per run that reached
\* game over.
C4_EveryRunOneRecord == user_id # 0 => Len(scores) = over

\* the only step that changes the score table is the one entering game over,
\* and it appends one row: this user, the run's final score, the run's mode
C4_SaveStep ==
    scores' # scores =>
        /\ pc # "GameOver" /\ pc' = "GameOver"
        /\ scores' = Append(scores, [user_id |-> user_id, score |-> score',
                                     difficulty |-> difficulty,
                                     created_at |-> Len(scores) + 1])

\* C4: each run of a logged-in player that reaches game over appends exactly
\* one row holding the run's final score and mode, unless save_score raised
\* for that run (the exception is swallowed and the run has no row); this
\* holds across restarts.  A guest's runs append nothing.
C4_OneRecordPerSavedRun ==
    /\ [](IF user_id # 0 THEN Len(scores) = over - fails ELSE scores = <<>>)
    /\ [](pc = "GameOver" /\ user_id # 0 /\ fails = 0 =>
            scores[Len(scores)] = [user_id |-> user_id, score |-> score,
                                   difficulty |-> difficulty,
                                   created_at |-> Len(scores)])
    /\ [][C4_SaveStep]_vars

\* two runs of one session, each with its own row, the second with a score
C4_Witness ==
    /\ pc = "GameOver" /\ run = 2 /\ Len(scores) = 2 /\ score > 0
    /\ scores[2].score = score /\ scores[1].score # score

\* C5: within a run the score never decreases from one step to the next.
C5_ScoreMonotone == [][run' = run => score' >= score]_vars

\* a run that has scored after the player changed lane
C5_Witness == score > 0 /\ pc = "Playing" /\ cur_lane # 1

\* obstacles whose passed flag was set by the step
C6_NewlyPassed ==
    {u \in Uids(enemies') :
        /\ ByUid(enemies', u).passed
        /\ u \in Uids(enemies) => ~ByUid(enemies, u).passed}

\* C6: an obstacle's passed flag never goes back to false, and the score
\* grows in a step by one award (150 or 250) for each obstacle whose flag
\* the step set, and by nothing else.
C6_PassedOnce ==
    [][run' = run =>
         /\ \A u \in Uids(enemies) \cap Uids(enemies') :
              ByUid(enemies, u).passed => ByUid(enemies', u).passed
         /\ LET k == Cardinality(C6_NewlyPassed)
            IN score' - score \in {150 * a + 250 * (k - a) : a \in 0..k}]_vars

\* an obstacle flagged at least two frames ago is still active, scored once
C6_Witness ==
    /\ score \in {150, 250}
    /\ \E i \in 1..Len(enemies) :
         /\ enemies[i].passed
         /\ enemies[i].y > PlayerY + PLAYER_H + 2 * 14
    /\ \A i, j \in 1..Len(enemies) :
         enemies[i].passed /\ enemies[j].passed => i = j

\* C7: when spawn() adds an obstacle to a lane, every obstacle already in
\* that lane has its top edge at least MinGap below the spawn line, hence at
\* least MinGap below the bottom edge of the new obstacle.
C7_GapAtSpawn ==
    [][(run' = run /\ next_uid' > next_uid) =>
         /\ spawned' # <<>>
         /\ spawned'[1].lane = last_lane'
         /\ \A i \in 1..Len(enemies) :
              enemies[i].lane = spawned'[1].lane =>
                 /\ enemies[i].y >= MinGap
                 /\ enemies[i].y - (spawned'[1].y + ENEMY_H) >= MinGap]_vars

\* a spawn into a lane that holds another active obstacle
C7_Witness ==
    /\ spawned # <<>>
    /\ \E i \in 1..Len(enemies) :
         /\ enemies[i].lane = spawned[1].lane
         /\ enemies[i].uid # spawned[1].uid

\* C8: spawn() never picks the lane of the preceding spawn when another lane
\* is eligible.
C8_AntiStreak ==
    [][(run' = run /\ next_uid' > next_uid /\ last_lane' = last_lane) =>
         \A l \in (0..(LANES - 1)) \ {last_lane} : Conflict(enemies, l)]_vars

\* the spawn timer fired in the step
C9_TimerFired == run' = run /\ last_spawn' # last_spawn

\* C9: the active obstacles never exceed the mode's cap (Casual 5, Heroic 7,
\* Nightmare 10); a step adds at most one obstacle; and when the timer fires
\* with the cap reached or every lane in conflict, spawn() declines and adds
\* nothing.
C9_SpawnCap ==
    /\ [](Len(enemies) <= DIFF(difficulty).max_enemies)
    /\ [](Len(enemies) <= (CASE difficulty = "Casual" -> 5
                             [] difficulty = "Heroic" -> 7
                             [] difficulty = "Nightmare" -> 10))
    /\ [][/\ Cardinality(Uids(enemies') \ Uids(enemies)) <= 1
          /\ Len(enemies') <= Len(enemies) + 1
          /\ (/\ C9_TimerFired
              /\ \/ Len(enemies) >= DIFF(difficulty).max_enemies
                 \/ \A l \in 0..(LANES - 1) : Conflict(enemies, l))
             => /\ Uids(enemies') \subseteq Uids(enemies)
                /\ spawn_res' = "declined"
                /\ next_uid' = next_uid]_vars

\* the timer fired with the cap reached, and spawn() declined
C9_Witness ==
    /\ spawn_res = "declined"
    /\ Len(enemies) = DIFF(difficulty).max_enemies

\* C10: cur_lane is always in 0..LANES-1 and target_x is the left edge of
\* that lane.
C10_LaneInRange ==
    /\ cur_lane \in 0..(LANES - 1)
    /\ target_x = LANE_X(cur_lane)

\* Left was pressed with the player already in lane 0
C10_Witness ==
    /\ last_ev = [key |-> "LEFT", lane |-> 0]
    /\ cur_lane = 0 /\ pc = "Playing"

\* the latest db call was top_scores with distinct = d; its arguments and rows
IsQuery(d) == ret.op = "top_scores" /\ ret.args[3] = d
QLimit == ret.args[1]
QMode == ret.args[2]
QRows == ret.val

\* the records of the player `name` that are in the scope of `mode`
PlayerRecords(name, mode) ==
    {i \in 1..Len(scores) :
        /\ \E k \in 1..Len(users) :
             users[k].username = name /\ users[k].id = scores[i].user_id
        /\ mode = "" \/ scores[i].difficulty = mode}

\* the greatest score among those records
Best(name, mode) ==
    LET S == {scores[i].score : i \in PlayerRecords(name, mode)}
    IN CHOOSE x \in S : \A y \in S : x >= y

\* the players that have a record in the scope of `mode`
PlayersIn(mode) ==
    {users[k].username : k \in {i \in 1..Len(users) :
                                  PlayerRecords(users[i].username, mode) # {}}}

OneRowPerPlayer(rows) ==
    \A i, k \in 1..Len(rows) : rows[i].username = rows[k].username => i = k

NonIncreasing(rows) ==
    \A i, k \in 1..Len(rows) : i < k => rows[i].score >= rows[k].score

\* C11: top_scores(limit, mode=M, distinct=True) returns at most one row per
\* player, each for a player with a record of mode M, with the greatest
\* score among that player's records of mode M.
C11_BestPerPlayerInMode ==
    (IsQuery(TRUE) /\ QMode # "") =>
        /\ OneRowPerPlayer(QRows)
        /\ \A i \in 1..Len(QRows) :
             /\ QRows[i].username \in PlayersIn(QMode)
             /\ QRows[i].score = Best(QRows[i].username, QMode)

\* a row of a mode query for a player whose record in another mode is higher
C11_Witness ==
    /\ IsQuery(TRUE) /\ QMode # ""
    /\ \E i \in 1..Len(QRows) :
         \E r \in PlayerRecords(QRows[i].username, "") :
            scores[r].difficulty # QMode /\ scores[r].score > QRows[i].score

\* C12: top_scores(limit, mode=None, distinct=True) returns at most one row
\* per player, with the greatest score among all records of that player.
C12_BestPerPlayerAllModes ==
    (IsQuery(TRUE) /\ QMode = "") =>
        /\ OneRowPerPlayer(QRows)
        /\ \A i \in 1..Len(QRows) :
             /\ QRows[i].username \in PlayersIn("")
             /\ QRows[i].score = Best(QRows[i].username, "")

\* a row for a player whose best score is not the first recorded one and
\* whose records are of two modes
C12_Witness ==
    /\ IsQuery(TRUE) /\ QMode = ""
    /\ \E i \in 1..Len(QRows) :
         LET R == PlayerRecords(QRows[i].username, "")
         IN /\ \E a, b \in R : scores[a].difficulty # scores[b].difficulty
            /\ \E a \in R : \A b \in R : a <= b /\ scores[a].score < QRows[i].score

\* C13: a distinct query returns its rows in non-increasing order of score,
\* at most `limit` of them, as many as the limit and the players in scope
\* allow, and no player left out has a best score above a returned one.
C13_DistinctOrderedTop ==
    IsQuery(TRUE) =>
        /\ NonIncreasing(QRows)
        /\ Len(QRows) <= QLimit
        /\ Len(QRows) = Min(QLimit, Cardinality(PlayersIn(QMode)))
        /\ \A n \in PlayersIn(QMode) \ {QRows[i].username : i \in 1..Len(QRows)} :
             \A i \in 1..Len(QRows) : Best(n, QMode) <= QRows[i].score

\* two rows with different scores; and the limit leaving a lower player out
C13_Witness ==
    /\ IsQuery(TRUE)
    /\ Len(QRows) = 1 /\ QLimit = 1
    /\ \E n \in PlayersIn(QMode) :
         n # QRows[1].username /\ Best(n, QMode) < QRows[1].score

\* the records the raw query of `mode` joins to the row value v
RecordsLike(v, mode) ==
    {i \in PlayerRecords(v.username, mode) :
        /\ scores[i].score = v.score /\ scores[i].difficulty = v.difficulty
        /\ scores[i].created_at = v.created_at}

\* the positions of the row value v in the row list
RowsLike(rows, v) == {i \in 1..Len(rows) : rows[i] = v}

\* every row value the raw query of `mode` can return
RawValues(mode) ==
    {[username |-> n, score |-> scores[i].score,
      difficulty |-> scores[i].difficulty,
      created_at |-> scores[i].created_at] :
        n \in PlayersIn(mode), i \in 1..Len(scores)}

\* C14: with distinct=False the rows are raw records of known players, in
\* non-increasing order of score, at most `limit`, all of the given mode if
\* one is given; each record is returned at most once, and every record in
\* scope with a higher score than some returned row is returned.
C14_RawTopRecords ==
    IsQuery(FALSE) =>
        /\ NonIncreasing(QRows)
        /\ Len(QRows) <= QLimit
        /\ \A i \in 1..Len(QRows) :
             /\ \E k \in 1..Len(users) : users[k].username = QRows[i].username
             /\ QMode # "" => QRows[i].difficulty = QMode
             /\ Cardinality(RowsLike(QRows, QRows[i]))
                   <= Cardinality(RecordsLike(QRows[i], QMode))
        /\ \A v \in RawValues(QMode) :
             (\E i \in 1..Len(QRows) : v.score > QRows[i].score) =>
                Cardinality(RowsLike(QRows, v)) = Cardinality(RecordsLike(v, QMode))

\* a mode query returning one player twice while the limit cuts a lower
\* record off
C14_Witness ==
    /\ IsQuery(FALSE) /\ QMode # ""
    /\ Len(QRows) = 2 /\ QRows[1].username = QRows[2].username
    /\ \E i \in 1..Len(scores) :
         scores[i].difficulty = QMode /\ scores[i].score < QRows[2].score

\* C15: the scores table only grows at its end, by one row per step, and the
\* step that grows it is a save_score call that returned, the new row being
\* its arguments; add_user, verify_user, set_user_car and top_scores leave
\* the table as it is.
C15_AppendOnly ==
    [][/\ Len(scores') >= Len(scores)
       /\ Len(scores') <= Len(scores) + 1
       /\ SubSeq(scores', 1, Len(scores)) = scores
       /\ scores' # scores =>
            /\ ret'.op = "save_score" /\ ret'.val = "None"
            /\ scores'[Len(scores')] = [user_id |-> ret'.args[1],
                                        score |-> ret'.args[2],
                                        difficulty |-> ret'.args[3],
                                        created_at |-> Len(scores')]
       /\ (ret'.op = "save_score" /\ ret' # ret /\ ret'.val = "None") =>
            Len(scores') = Len(scores) + 1
       /\ (ret'.op # "save_score" \/ ret'.val # "None") => scores' = scores]_vars

\* two records outlived a set_user_car call that changed a car
C15_Witness ==
    /\ Len(scores) >= 2 /\ ret.op = "set_user_car"
    /\ \E k \in 1..Len(users) :
         users[k].selected_car = "player2.png" /\ users[k].id = scores[1].user_id

\* C16: the step that restarts from game over leaves a fresh run: score 0,
\* no obstacle, the player in the start lane (1) and at its position, not
\* paused, running, the spawn interval at the mode's base value and the
\* spawn timer at zero, with the mode and the user id unchanged.
C16_RestartFresh ==
    [][(pc = "GameOver" /\ run' = run + 1) =>
         /\ score' = 0 /\ enemies' = <<>> /\ next_uid' = 0
         /\ cur_lane' = 1 /\ target_x' = LANE_X(1) /\ player_x' = LANE_X(1)
         /\ ~paused' /\ running' /\ ~collided'
         /\ spawn_ms' = DIFF(difficulty).spawn_ms
         /\ now' - last_spawn' = 0
         /\ difficulty' = difficulty /\ user_id' = user_id]_vars

\* the second run at its start, the first one having scored and been saved
C16_Witness ==
    /\ run = 2 /\ pc = "Menu" /\ score = 0
    /\ Len(scores) = 1 /\ scores[1].score > 0

\* C17: the menu action on the game over screen takes the session to the
\* main menu, starts no run and writes no score record.
C17_MenuActionToMenu ==
    [][(pc = "GameOver" /\ last_ev'.key = "menu") =>
         /\ pc' = "Menu"
         /\ run' = run
         /\ scores' = scores]_vars

\* C18: a save_score that raises changes nothing but the failure count: the
\* session is at game over all the same, every choice of the game over
\* screen is open there, and a choice leads where it leads after a
\* successful save: restart to a new run at the main menu, the others out of
\* run_game, neither touching the score table.
C18_SaveFailureNonFatal ==
    /\ [][fails' > fails =>
            /\ pc' = "GameOver" /\ over' = over + 1
            /\ scores' = scores /\ score' >= score]_vars
    /\ [](pc = "GameOver" =>
            /\ ENABLED GameOverChoice("menu")
            /\ ENABLED GameOverChoice("quit")
            /\ run < MaxRuns => ENABLED GameOverChoice("restart"))
    /\ [][pc = "GameOver" =>
            /\ scores' = scores /\ fails' = fails
            /\ \/ pc' = "Returned" /\ run' = run
               \/ pc' = "Menu" /\ run' = run + 1 /\ score' = 0]_vars

\* a run played after the restart that followed a failed save
C18_Witness == fails >= 1 /\ run = 2 /\ pc = "Playing" /\ Len(scores) = 0

\* C19: a guest session never writes a score record.
C19_GuestNeverSaves == user_id = 0 => scores = <<>> /\ fails = 0

\* a guest at the game over screen of a second run, ended by a collision
C19_Witness ==
    user_id = 0 /\ pc = "GameOver" /\ run = 2 /\ over = 2 /\ collided

\* the obstacles in the lane of a player standing at that lane's position
C20_InPlayerLane ==
    {i \in 1..Len(enemies) :
        enemies[i].lane = cur_lane /\ player_x = LANE_X(cur_lane)}

\* C20: an obstacle in the lane of a standing player is never marked passed
\* and never gets below the player; while the run goes on it does not
\* overlap the player and every frame without a collision brings it nearer
\* (so the collision comes); the run that has
\* collided is at game over with that obstacle unscored, and no frame follows.
C20_HeadOnCollides ==
    /\ [](\A i \in C20_InPlayerLane :
            /\ ~enemies[i].passed
            /\ enemies[i].y <= PlayerY + PLAYER_H
            /\ pc = "Playing" => ~Collided(have_masks, player_x, enemies[i]))
    /\ [](collided =>
            /\ pc = "GameOver"
            /\ \E i \in C20_InPlayerLane :
                 Collided(have_masks, player_x, enemies[i]))
    /\ [][(ticks' > ticks /\ ~collided') =>
            \A i \in C20_InPlayerLane :
               \A k \in 1..Len(enemies') :
                  enemies'[k].uid = enemies[i].uid => enemies'[k].y > enemies[i].y]_vars
    /\ [][collided => collided' /\ ticks' = ticks /\ score' = score]_vars

\* the slowest obstacle of the slowest mode has hit the shrunk hit box
C20_Witness ==
    /\ collided /\ pc = "GameOver" /\ ~have_masks /\ difficulty = "Casual"
    /\ \E i \in C20_InPlayerLane :
         /\ Collided(have_masks, player_x, enemies[i])
         /\ enemies[i].speed = DIFF(difficulty).min
         /\ ~enemies[i].passed

\* horizontal distance of the centres of obstacle e and of a player at px
C21_Dist(px, e) == Abs((LANE_X(e.lane) + 40) - (px + 40))

\* the obstacles the step marked passed, as they are after the step
C21_Marked ==
    {k \in 1..Len(enemies') :
        /\ enemies'[k].passed
        /\ \A i \in 1..Len(enemies) :
              enemies[i].uid = enemies'[k].uid => ~enemies[i].passed}

\* C21: a frame calls spawn_popup once for each obstacle it marks passed;
\* the obstacle earns 250 when its centre and the player's centre (where
\* the obstacle loop finds the player) are at most 80 apart, on either
\* side, and 150 otherwise; the score grows by the sum of these awards and
\* 250 > 150.
C21_PassAward ==
    [][(run' = run /\ ticks' > ticks) =>
         LET close == {k \in 1..Len(popups') : popups'[k].txt = "+250"}
             far == {k \in 1..Len(popups') : popups'[k].txt = "+150"}
         IN /\ Len(popups') = Cardinality(C21_Marked)
            /\ close \cup far = 1..Len(popups')
            /\ \A k \in 1..Len(popups') :
                 /\ popups'[k].x = player_x + 40
                 /\ \E m \in C21_Marked : enemies'[m].lane = popups'[k].lane
                 /\ k \in close <=>
                      C21_Dist(player_x, [lane |-> popups'[k].lane]) <= 80
            /\ score' - score = 250 * Cardinality(close) + 150 * Cardinality(far)
            /\ 250 > 150]_vars

\* a close pass of an obstacle whose centre is left of the player's centre
C21_Witness ==
    /\ pc = "Playing" /\ score = 250
    /\ \E k \in 1..Len(popups) :
         /\ popups[k].txt = "+250"
         /\ LANE_X(popups[k].lane) + 40 < popups[k].x
         /\ popups[k].x - (LANE_X(popups[k].lane) + 40) <= 80

\* the obstacle of the collision test and the two bounding boxes
C22_Ex == LANE_X(enemies[1].lane)
C22_Ey == enemies[1].y

C22_BoxesDisjoint ==
    \/ C22_Ex + ENEMY_W <= player_x \/ player_x + PLAYER_W <= C22_Ex
    \/ C22_Ey + ENEMY_H <= PlayerY \/ PlayerY + PLAYER_H <= C22_Ey

C22_FullOverlap == C22_Ex = player_x /\ C22_Ey = PlayerY

\* C22: with masks and with the shrunk hit boxes alike, the collision test
\* reports nothing for an obstacle whose bounding box is disjoint from the
\* player's (touching edges included), and reports a collision for an
\* obstacle that lies exactly over the player.
C22_DisjointNeverFullAlways ==
    pc = "Tested" =>
        /\ C22_BoxesDisjoint => ~collided
        /\ C22_FullOverlap => collided
        /\ running = ~collided

\* the shrunk hit boxes report the obstacle lying exactly over the player
C22_Witness ==
    pc = "Tested" /\ ~have_masks /\ C22_FullOverlap /\ collided

\* C23: within a run, while the score does not fall, the speed bounds of new
\* obstacles do not fall and the spawn interval in force does not rise.
C23_NoRegression ==
    [][(run' = run /\ score' >= score) =>
         /\ DIFF(difficulty').min >= DIFF(difficulty).min
         /\ DIFF(difficulty').max >= DIFF(difficulty).max
         /\ spawn_ms' <= spawn_ms]_vars

\* C24: the spawn interval in force is never below 200 ms; spawn() is only
\* attempted when the timer fires, and the timer fires only when more than
\* the interval in force has gone by since the preceding attempt (or since
\* the start of the run), the interval drawn then being at least 200 ms.
C24_IntervalFloor ==
    /\ [](spawn_ms >= 200)
    /\ [](now >= last_spawn)
    /\ [][(run' = run /\ (last_spawn' # last_spawn \/ spawn_res' # "idle")) =>
            /\ now' - last_spawn > spawn_ms
            /\ last_spawn' = now'
            /\ spawn_ms' >= 200]_vars
    /\ [][(run' = run /\ next_uid' > next_uid) => last_spawn' = now']_vars

\* the third attempt of a Nightmare run, with the shortest interval drawn
C24_Witness ==
    /\ pc = "Playing" /\ difficulty = "Nightmare"
    /\ spawn_res = "spawned" /\ next_uid >= 3
    /\ spawn_ms = 350 /\ last_spawn = now

\* C25: the timestamp of each row of a distinct query is the timestamp of a
\* record of that player, in the scope of the query, that holds the row's
\* (best) score.
C25_TimestampOfBest ==
    IsQuery(TRUE) =>
        \A i \in 1..Len(QRows) :
           \E r \in PlayerRecords(QRows[i].username, QMode) :
              /\ scores[r].score = QRows[i].score
              /\ scores[r].created_at = QRows[i].created_at

\* the username an add_user call was given was taken before the call
C26_Taken == \E i \in 1..Len(users) : users[i].username = ret'.args[1]

\* C26: no two users share a username or an id; an add_user call on a taken
\* username returns False and leaves the users table as it was; any other
\* add_user call returns True and appends one user with that name, the hash
\* of the given password, the default car and a new id, leaving the other
\* users as they were; and add_user never touches the scores.
C26_AddUser ==
    /\ [](\A i, k \in 1..Len(users) :
            (users[i].username = users[k].username \/ users[i].id = users[k].id)
               => i = k)
    /\ [][(ret'.op = "add_user" /\ <<users, ret>>' # <<users, ret>>) =>
            /\ ret'.val = ~C26_Taken
            /\ C26_Taken => users' = users
            /\ ~C26_Taken =>
                 /\ Len(users') = Len(users) + 1
                 /\ SubSeq(users', 1, Len(users)) = users
                 /\ users'[Len(users')].username = ret'.args[1]
                 /\ users'[Len(users')].password =
                       _hash(ret'.args[1], ret'.args[2])
                 /\ users'[Len(users')].selected_car = "player1.png"
            /\ scores' = scores]_vars

\* add_user was refused for the name of a user who had picked another car,
\* with another password than that user's
C26_Witness ==
    /\ ret.op = "add_user" /\ ret.val = FALSE /\ ret.args[2] = "pw2"
    /\ Len(users) = 2
    /\ \E i \in 1..Len(users) :
         /\ users[i].username = ret.args[1]
         /\ users[i].selected_car = "player2.png"
         /\ users[i].password = _hash(ret.args[1], "pw1")

\* the users whose name and secret are the ones a verify_user call was given
C27_Matching ==
    {i \in 1..Len(users) :
        /\ users[i].username = ret'.args[1]
        /\ users[i].password = <<"pbkdf2", ret'.args[1], ret'.args[2]>>}

\* C27: a verify_user call returns the id and the selected car of the user
\* with the given name and secret when there is one, and None otherwise; it
\* changes neither table; and when it returns None the launcher's user id,
\* username, selected car and config (last_username, session_active,
\* selected_car) are what they were before the attempt.
C27_VerifyUser ==
    [][(ret'.op = "verify_user" /\ ret' # ret) =>
         /\ C27_Matching = {} => ret'.val = <<>> /\ app' = app
         /\ \A i \in C27_Matching :
               ret'.val = <<users[i].id, users[i].selected_car>>
         /\ users' = users /\ scores' = scores]_vars

\* bob's name with a wrong password was refused while ann is logged in with
\* a car of her choice
C27_Witness ==
    /\ ret.op = "verify_user" /\ ret.val = <<>>
    /\ \E i \in 1..Len(users) :
         users[i].username = ret.args[1] /\ users[i].id # app.user_id
    /\ app.user_id # 0 /\ app.cfg.session_active
    /\ app.selected_car = "player2.png"

\* C28: the restart chosen on the game over screen puts the session in the
\* Playing state: the new run's frames follow without a start action.
C28_RestartPlays ==
    [][(pc = "GameOver" /\ run' = run + 1) => pc' = "Playing"]_vars

\* the obstacle i overlaps the player's row vertically
C29_InRow(i) ==
    enemies[i].y < PlayerY + PLAYER_H /\ enemies[i].y + ENEMY_H > PlayerY

\* C29: in every Playing state some lane has no obstacle that overlaps the
\* player's row vertically.
C29_SomeLaneOpen ==
    pc = "Playing" =>
        \E l \in 0..(LANES - 1) :
           \A i \in 1..Len(enemies) : enemies[i].lane = l => ~C29_InRow(i)

\* C30: when an exception has left the gameplay loop of a logged-in player
\* who had scored, the scores table holds a record of that player with the
\* run's score and mode.
C30_ScoreKeptOnFailure ==
    (pc = "Crashed" /\ user_id # 0 /\ score > 0) =>
        \E i \in 1..Len(scores) :
           /\ scores[i].user_id = user_id
           /\ scores[i].score = score
           /\ scores[i].difficulty = difficulty

\* C31: the step that ends the gameplay of a logged-in player's run (from
\* play or from the pause overlay), save_score not raising, appends one
\* record with the run's score and mode.
C31_EveryRoutePersists ==
    [][(/\ pc \in {"Playing", "Paused"} /\ pc' \notin {"Playing", "Paused"}
        /\ user_id # 0 /\ fails' = fails) =>
         /\ Len(scores') = Len(scores) + 1
         /\ scores'[Len(scores')].user_id = user_id
         /\ scores'[Len(scores')].score = score'
         /\ scores'[Len(scores')].difficulty = difficulty]_vars

\* C32: the frame in which the player leaves from the pause overlay (Esc or
\* the Quit button) spawns and moves no obstacle and leaves the score as it
\* was when the overlay opened.
C32_NoStepAfterLeaving ==
    [][(pc = "Paused" /\ last_ev'.key = "ESC") =>
         /\ enemies' = enemies
         /\ score' = score
         /\ last_spawn' = last_spawn]_vars

\* C33: at no tick do the rectangles of two active obstacles of one lane
\* overlap, whatever their speeds.
C33_NoOverlapInLane ==
    \A i, j \in 1..Len(enemies) :
        (i # j /\ enemies[i].lane = enemies[j].lane) =>
            Abs(enemies[i].y - enemies[j].y) >= ENEMY_H

\* C34: the collision test of an obstacle is decided by mask overlap exactly
\* when both masks are available and by the shrunk rectangles otherwise.
C34_MaskPolicy ==
    MaskCollide(player_x, LANE_X(enemies[1].lane), enemies[1].y)

C34_ShrunkPolicy ==
    ShrunkCollide(player_x, LANE_X(enemies[1].lane), enemies[1].y)

C34_OnePolicyDecides ==
    [][(pc = "Playing" /\ pc' = "Tested") =>
         collided' = IF player_mask /\ enemy_mask THEN C34_MaskPolicy
                     ELSE C34_ShrunkPolicy]_vars

\* only the player's mask was built, the bounding boxes overlap, the shrunk
\* boxes do not, and the test reported no collision
C34_Witness ==
    /\ pc = "Tested" /\ player_mask /\ ~enemy_mask
    /\ C34_MaskPolicy /\ ~C34_ShrunkPolicy /\ ~collided

\* C35: at the end of every tick no active obstacle lies below SCREEN_H + 200,
\* and an obstacle that a tick removes has moved below that line in that tick.
C35_Line == SCREEN_H + DespawnMargin

C35_NoneBeyond == \A i \in 1..Len(enemies) : enemies[i].y <= C35_Line

C35_Gone(e) == \A j \in 1..Len(enemies') : enemies'[j].uid # e.uid

C35_RemovedOnCrossing ==
    (ticks' # ticks) =>
        \A i \in 1..Len(enemies) :
            C35_Gone(enemies[i]) => MoveY(enemies[i], difficulty) > C35_Line

C35_Despawn == []C35_NoneBeyond /\ [][C35_RemovedOnCrossing]_vars

\* play goes on after an obstacle of this run was removed
C35_Witness ==
    /\ pc = "Playing" /\ run = 1
    /\ \E u \in 0..(next_uid - 1) : \A i \in 1..Len(enemies) : enemies[i].uid # u

C37_Step == LaneChangeSpeed * frame_ms * 6

C37_Toward ==
    /\ player_x <= target_x' => (player_x <= player_x' /\ player_x' <= target_x')
    /\ player_x >= target_x' => (target_x' <= player_x' /\ player_x' <= player_x)

C37_InSpan == LANE_X(0) <= player_x' /\ player_x' <= LANE_X(LANES - 1)

C37_InputOnly ==
    /\ Abs(cur_lane' - cur_lane) <= 1
    /\ target_x' = LANE_X(cur_lane')

C37_Tick == pc = "Playing" /\ ticks' = ticks + 1

C37_NeverSnaps ==
    [][C37_Tick =>
         /\ C37_Toward /\ C37_InSpan /\ C37_InputOnly
         /\ Abs(player_x' - player_x) * Scale <= C37_Step]_vars

\* C37 (amended): as above, the move being at most one interpolation step
\* rounded up to the whole pixel the rectangle stores.
C37_NeverSnapsPixel ==
    [][C37_Tick =>
         /\ C37_Toward /\ C37_InSpan /\ C37_InputOnly
         /\ Abs(player_x' - player_x) * Scale < C37_Step + Scale]_vars

\* the player is between two lanes, on the way to the target
C37_Witness ==
    /\ pc = "Playing" /\ player_x # target_x
    /\ \A l \in 0..(LANES - 1) : player_x # LANE_X(l)
    /\ last_ev.key \in {"LEFT", "RIGHT"}

\* C38: in a distinct query without a mode each row carries the greatest
\* difficulty label and the greatest created_at among all the records of its
\* player, whichever record holds the player's best score.
C38_Recs(i) == PlayerRecords(QRows[i].username, "")

C38_IndependentMaxima ==
    (IsQuery(TRUE) /\ QMode = "") =>
        \A i \in 1..Len(QRows) :
           /\ \E r \in C38_Recs(i) : scores[r].difficulty = QRows[i].difficulty
           /\ \A r \in C38_Recs(i) :
                 LabelRank(scores[r].difficulty) <= LabelRank(QRows[i].difficulty)
           /\ \E r \in C38_Recs(i) : scores[r].created_at = QRows[i].created_at
           /\ \A r \in C38_Recs(i) : scores[r].created_at <= QRows[i].created_at

\* a row whose score, label and timestamp come from three different records
C38_Witness ==
    /\ IsQuery(TRUE) /\ QMode = ""
    /\ \E i \in 1..Len(QRows) :
          \A r \in C38_Recs(i) :
             /\ scores[r].score = QRows[i].score =>
                   /\ scores[r].difficulty # QRows[i].difficulty
                   /\ scores[r].created_at # QRows[i].created_at
             /\ scores[r].difficulty = QRows[i].difficulty =>
                   scores[r].created_at # QRows[i].created_at

\* C39: the launcher's user_id becomes set only in a step whose verify_user
\* call, made by this process, returned that user's row; while the resume
\* dialog of a persisted session is open no identity is held; a logout
\* clears the identity and session_active; and a launched run is entered
\* with the identity the launcher holds, so it is a guest run after a logout.
C39_Verified ==
    /\ ret'.op = "verify_user"
    /\ ret'.val # <<>>
    /\ ret'.val[1] = app'.user_id
    /\ ret'.args[1] = app'.username

C39_IdentitySet == app'.user_id # 0 /\ app'.user_id # app.user_id

C39_LoggedOut == app.user_id # 0 /\ app'.user_id = 0 /\ ~app'.modal

C39_IdentityOnlyVerified ==
    /\ [](app.modal => app.user_id = 0)
    /\ [][C39_IdentitySet => C39_Verified]_vars
    /\ [][C39_LoggedOut => (~app'.cfg.session_active /\ app'.username = "")]_vars
    /\ [][run' # run => user_id' = app.user_id]_vars

\* a session was resumed with the password in this process (do_resume
\* leaves the car of config.json as a guest set it) and a run was launched
\* with its identity
C39_Witness ==
    /\ app.user_id # 0 /\ app.cfg.session_active /\ ~app.modal
    /\ app.selected_car # app.cfg.selected_car
    /\ ret.op = "verify_user" /\ ret.val # <<>>
    /\ run > 1 /\ user_id = app.user_id

====
